---- MODULE Spec2Model ----
(***************************************************************************)
(* Model of druid/examples/wasm/build.rs: the build script that links the  *)
(* examples directory into the crate (link_dir) and then generates         *)
(* src/examples.in, index.html and html/<example>.html (main).             *)
(*                                                                         *)
(* A file name is the sequence of its dot-separated segments:              *)
(* "foo.rs" is <<"foo", "rs">>, "foo.bar.rs" is <<"foo", "bar", "rs">>,    *)
(* ".rs" is <<"", "rs">>.  A file of the html directory is named by the    *)
(* segments of its file name.                                              *)
(***************************************************************************)
EXTENDS Integers, Sequences, FiniteSets, TLC

\* ---------------------------------------------------------------- bounds
\* Largest number of entries the scanned directory holds.
MaxEntries == 2

\* ------------------------------------------------------ fixed by the source
EXCEPTIONS == {"svg", "ext_event", "blocking_function"}

\* File names that may appear in the examples directory.
Universe ==
    { <<"foo", "rs">>, <<"switch", "rs">>, <<"foo", "bar", "rs">>,
      <<"svg", "rs">>, <<"readme", "md">>, <<"", "rs">> }

\* Content of the directory a stale link points to, and of a real
\* non-empty directory found at the destination.
OtherDir == { <<"other", "rs">> }
OwnDir == { <<"own", "rs">> }

Platforms == {"unix", "windows"}
DstStates == {"absent", "link_src", "link_other", "file", "empty_dir", "nonempty_dir"}
MklinkOutcomes == {"ok", "nolink", "nospawn"}

\* ------------------------------------------------------------ path rules
\* std::path: a name splits at its last dot, unless what is before that
\* dot is empty (then the whole name is the stem and there is no extension).
HasExtension(name) ==
    /\ Len(name) >= 2
    /\ ~(Len(name) = 2 /\ name[1] = "")

extension(name) == name[Len(name)]

file_stem(name) ==
    IF HasExtension(name) THEN SubSeq(name, 1, Len(name) - 1) ELSE name

\* PathBuf::with_extension on a file name: the extension of the name, if it
\* has one, is replaced; otherwise the extension is added.
with_extension(name, ext) == Append(file_stem(name), ext)

\* format!("{name}.html"): the text of the name followed by ".html".
FormatHtmlName(name) == Append(name, "html")

\* ------------------------------------------------------------ templates
ExamplesInHeader == << <<"mod examples {">> >>
IndexHeader == << <<"<ul>">> >>

ModLine(example_str) == <<"pub mod", example_str>>

\* Variant: the reserved name is passed through unchanged.
js_entry_fn_name_NoRemap(example_str) == example_str

js_entry_fn_name(example_str) ==
    IF example_str = <<"switch">> THEN <<"switch_demo">> ELSE example_str

index_entry(example_str) ==
    <<"li", FormatHtmlName(example_str), example_str>>

HtmlDocument(name) == [title |-> name, import |-> name, call |-> name]

\* The path the per-example document is written to, inside the html directory.
HtmlPath(example) == with_extension(example, "html")

IsRs(path) == HasExtension(path) /\ extension(path) = "rs"

IsException(example_str) == Len(example_str) = 1 /\ example_str[1] \in EXCEPTIONS

Qualifies(path) == IsRs(path) /\ ~IsException(file_stem(path))

VARIABLES
    platform,     \* cfg(unix) or cfg(windows)
    writable,     \* the process may create and remove entries next to dst
    priv,         \* windows: directory symlinks are permitted
    mklink,       \* windows: what the mklink utility does
    dst,          \* what is at src/examples
    srcDir,       \* entries of the parent directory (the examples)
    htmlDir,      \* what is at <crate>/html: "absent", "dir" or "file"
    html,         \* files of <crate>/html: file name -> document
    examplesIn,   \* content of src/examples.in, <<>> when the file is absent
    indexHtml,    \* content of index.html, <<>> when the file is absent
    pc,           \* position of the build script
    todo,         \* directory entries the loop has not yet visited
    examples_in,  \* the local buffer examples_in
    index_html,   \* the local buffer index_html
    listed,       \* entries read_dir returned in this run
    wrote,        \* this run's html writes: sequence of [entry, path, doc]
    fault,        \* what made this run fail, "" when nothing did
    linkLog,      \* this run's linker operations: sequence of <<op, result>>
    prevLinkOk,   \* the previous call of link_dir returned normally
    prevOut       \* outputs of the previous run when it succeeded and nothing
                  \* changed since, else <<>>

vars == <<platform, writable, priv, mklink, dst, srcDir, htmlDir, html,
          examplesIn, indexHtml, pc, todo, examples_in, index_html, listed,
          wrote, fault, linkLog, prevLinkOk, prevOut>>

env == <<platform, writable, priv, mklink>>
outFiles == <<htmlDir, html, examplesIn, indexHtml>>
locals == <<todo, examples_in, index_html, listed, wrote>>

Outputs == [examples_in |-> examplesIn, index |-> indexHtml, html |-> html]

Dirs == { d \in SUBSET Universe : Cardinality(d) <= MaxEntries }

Init ==
    /\ platform \in Platforms
    /\ writable \in BOOLEAN
    /\ priv \in (IF platform = "windows" THEN BOOLEAN ELSE {FALSE})
    /\ mklink \in (IF platform = "windows" THEN MklinkOutcomes ELSE {"nospawn"})
    /\ dst \in DstStates
    /\ srcDir \in Dirs
    /\ htmlDir \in {"absent", "dir", "file"}
    /\ html = << >>
    /\ examplesIn = << >>
    /\ indexHtml = << >>
    /\ pc = "idle"
    /\ todo = {}
    /\ examples_in = << >>
    /\ index_html = << >>
    /\ listed = {}
    /\ wrote = << >>
    /\ fault = ""
    /\ linkLog = << >>
    /\ prevLinkOk = FALSE
    /\ prevOut = << >>

\* --------------------------------------------------------- the environment
Stopped == pc \in {"idle", "done", "failed"}

\* The process of the last run is gone, and its locals with it.
Exited ==
    /\ pc' = "idle"
    /\ todo' = {}
    /\ examples_in' = << >>
    /\ index_html' = << >>
    /\ listed' = {}
    /\ wrote' = << >>
    /\ fault' = ""

\* Between two runs a file is added to the examples directory.
AddFile(f) ==
    /\ Stopped
    /\ f \in Universe \ srcDir
    /\ Cardinality(srcDir) < MaxEntries
    /\ srcDir' = srcDir \cup {f}
    /\ Exited
    /\ UNCHANGED <<env, dst, outFiles, linkLog, prevLinkOk, prevOut>>

\* Between two runs a file is removed from the examples directory.
RemoveFile(f) ==
    /\ Stopped
    /\ f \in srcDir
    /\ srcDir' = srcDir \ {f}
    /\ Exited
    /\ UNCHANGED <<env, dst, outFiles, linkLog, prevLinkOk, prevOut>>

\* ------------------------------------------------------------- link_dir
Exists(d) == d # "absent"

\* main up to the call of link_dir.
main_start ==
    /\ Stopped
    /\ pc' = IF platform = "unix" THEN "link_dir_unix" ELSE "remove_dir"
    /\ prevLinkOk' = (\E i \in 1..Len(linkLog) : linkLog[i] = <<"link_dir", "return">>)
    /\ prevOut' = IF pc = "done" THEN <<Outputs>> ELSE << >>
    /\ linkLog' = << >>
    /\ fault' = ""
    /\ todo' = {}
    /\ examples_in' = << >>
    /\ index_html' = << >>
    /\ listed' = {}
    /\ wrote' = << >>
    /\ UNCHANGED <<env, dst, srcDir, outFiles>>

\* symlink(2): EEXIST when anything is at dst, another error when the link
\* cannot be created, else the link is made.
SymlinkResult ==
    IF Exists(dst) THEN "AlreadyExists"
    ELSE IF ~writable THEN "Other"
    ELSE "Ok"

\* Variant: an existing destination is reported like any other error.
link_dir_unix_NoSwallow ==
    /\ pc = "link_dir_unix"
    /\ LET r == SymlinkResult IN
        /\ dst' = IF r = "Ok" THEN "link_src" ELSE dst
        /\ IF r # "Ok"
             THEN /\ pc' = "failed"
                  /\ fault' = "symlink"
                  /\ linkLog' = linkLog \o << <<"symlink", r>> >>
             ELSE /\ pc' = "linked"
                  /\ fault' = fault
                  /\ linkLog' = linkLog \o << <<"symlink", r>>, <<"link_dir", "return">> >>
    /\ UNCHANGED <<env, srcDir, outFiles, locals, prevLinkOk, prevOut>>

link_dir_unix ==
    /\ pc = "link_dir_unix"
    /\ LET r == SymlinkResult IN
        /\ dst' = IF r = "Ok" THEN "link_src" ELSE dst
        /\ IF r = "Other"
             THEN /\ pc' = "failed"
                  /\ fault' = "symlink"
                  /\ linkLog' = linkLog \o << <<"symlink", r>> >>
             ELSE /\ pc' = "linked"
                  /\ fault' = fault
                  /\ linkLog' = linkLog \o << <<"symlink", r>>, <<"link_dir", "return">> >>
    /\ UNCHANGED <<env, srcDir, outFiles, locals, prevLinkOk, prevOut>>

\* fs::remove_dir: removes a link, a junction or an empty directory.
RemoveDirResult ==
    IF dst = "absent" THEN "NotFound"
    ELSE IF dst \in {"file", "nonempty_dir"} THEN "Other"
    ELSE IF ~writable THEN "Other"
    ELSE "Ok"

link_dir_windows_remove ==
    /\ pc = "remove_dir"
    /\ LET r == RemoveDirResult IN
        /\ dst' = IF r = "Ok" THEN "absent" ELSE dst
        /\ linkLog' = Append(linkLog, <<"remove_dir", r>>)
        /\ IF r = "Other"
             THEN pc' = "failed" /\ fault' = "remove_dir"
             ELSE pc' = "symlink_dir" /\ fault' = fault
    /\ UNCHANGED <<env, srcDir, outFiles, locals, prevLinkOk, prevOut>>

SymlinkDirOk == priv /\ writable /\ ~Exists(dst)

link_dir_windows_symlink ==
    /\ pc = "symlink_dir"
    /\ IF SymlinkDirOk
         THEN /\ dst' = "link_src"
              /\ pc' = "linked"
              /\ linkLog' = linkLog \o << <<"symlink_dir", "Ok">>, <<"link_dir", "return">> >>
         ELSE /\ dst' = dst
              /\ pc' = "mklink"
              /\ linkLog' = Append(linkLog, <<"symlink_dir", "Err">>)
    /\ UNCHANGED <<env, srcDir, outFiles, locals, fault, prevLinkOk, prevOut>>

\* cmd /C mklink /J dst src, and the check that dst exists afterwards.
MklinkCreates == mklink = "ok" /\ writable /\ ~Exists(dst)

\* Variant: the destination is not checked after the utility has run.
link_dir_windows_mklink_NoVerify ==
    /\ pc = "mklink"
    /\ IF mklink = "nospawn"
         THEN /\ dst' = dst
              /\ pc' = "failed"
              /\ fault' = "mklink"
              /\ linkLog' = Append(linkLog, <<"mklink", "nospawn">>)
         ELSE LET made == mklink = "ok" /\ writable /\ dst = "absent" IN
              /\ dst' = IF made THEN "junction_src" ELSE dst
              /\ pc' = "linked"
              /\ fault' = fault
              /\ linkLog' = linkLog \o
                    << <<"mklink", IF made THEN "created" ELSE "nocreate">>,
                       <<"link_dir", "return">> >>
    /\ UNCHANGED <<env, srcDir, outFiles, locals, prevLinkOk, prevOut>>

link_dir_windows_mklink ==
    /\ pc = "mklink"
    /\ IF mklink = "nospawn"
         THEN /\ dst' = dst
              /\ pc' = "failed"
              /\ fault' = "mklink"
              /\ linkLog' = Append(linkLog, <<"mklink", "nospawn">>)
         ELSE LET made == MklinkCreates
                  after == IF made THEN "junction_src" ELSE dst
              IN /\ dst' = after
                 /\ IF Exists(after)
                      THEN /\ pc' = "linked"
                           /\ fault' = fault
                           /\ linkLog' = linkLog \o
                                << <<"mklink", IF made THEN "created" ELSE "nocreate">>,
                                   <<"exists", "true">>, <<"link_dir", "return">> >>
                      ELSE /\ pc' = "failed"
                           /\ fault' = "verify"
                           /\ linkLog' = linkLog \o
                                << <<"mklink", IF made THEN "created" ELSE "nocreate">>,
                                   <<"exists", "false">> >>
    /\ UNCHANGED <<env, srcDir, outFiles, locals, prevLinkOk, prevOut>>

\* ----------------------------------------------------------------- main
IsDir(d) == d \notin {"absent", "file"}

\* The entries of the directory the path src/examples resolves to.
DirContent(d) ==
    CASE d \in {"link_src", "junction_src"} -> srcDir
      [] d = "link_other" -> OtherDir
      [] d = "nonempty_dir" -> OwnDir
      [] OTHER -> {}

\* The buffers are set up and examples_dir.read_dir()? is called.
main_read_dir ==
    /\ pc = "linked"
    /\ \E ok \in BOOLEAN :
        IF ok /\ IsDir(dst)
          THEN /\ pc' = "loop"
               /\ fault' = fault
               /\ todo' = DirContent(dst)
               /\ listed' = DirContent(dst)
          ELSE /\ pc' = "failed"
               /\ fault' = "read_dir"
               /\ todo' = todo
               /\ listed' = listed
    /\ examples_in' = ExamplesInHeader
    /\ index_html' = IndexHeader
    /\ UNCHANGED <<env, dst, srcDir, outFiles, wrote, linkLog, prevLinkOk, prevOut>>

\* Variant: the html directory is emptied before the document is written.
WriteHtml_Truncate(path, doc) == [p \in {path} |-> doc]

WriteHtml(path, doc) ==
    [p \in (DOMAIN html) \cup {path} |-> IF p = path THEN doc ELSE html[p]]

\* One iteration of the loop over the directory, for the entry the iterator
\* yields next; any unvisited entry may come next.
main_loop(path) ==
    /\ pc = "loop"
    /\ path \in todo
    /\ \E io \in {"ok", "entry_err", "create_dir_err", "write_err"} :
        LET example == file_stem(path)
            html_path == HtmlPath(example)
            doc == HtmlDocument(js_entry_fn_name(example))
        IN
        IF io = "entry_err"
          THEN /\ pc' = "failed"
               /\ fault' = "entry"
               /\ UNCHANGED <<todo, examples_in, index_html, wrote, outFiles>>
        ELSE IF ~Qualifies(path)
          THEN /\ io = "ok"
               /\ todo' = todo \ {path}
               /\ UNCHANGED <<pc, fault, examples_in, index_html, wrote, outFiles>>
        ELSE
            /\ examples_in' = Append(examples_in, ModLine(example))
            /\ index_html' = Append(index_html, index_entry(example))
            /\ UNCHANGED <<examplesIn, indexHtml>>
            /\ IF htmlDir = "absent" /\ io = "create_dir_err"
                 THEN /\ pc' = "failed"
                      /\ fault' = "create_dir"
                      /\ UNCHANGED <<todo, wrote, htmlDir, html>>
               ELSE IF htmlDir = "file" \/ io = "write_err"
                 THEN /\ io # "create_dir_err"
                      /\ pc' = "failed"
                      /\ fault' = "write_html"
                      /\ htmlDir' = IF htmlDir = "absent" THEN "dir" ELSE htmlDir
                      /\ UNCHANGED <<todo, wrote, html>>
               ELSE /\ io = "ok"
                    /\ htmlDir' = "dir"
                    /\ html' = WriteHtml(html_path, doc)
                    /\ wrote' = Append(wrote, [entry |-> path, path |-> html_path, doc |-> doc])
                    /\ todo' = todo \ {path}
                    /\ UNCHANGED <<pc, fault>>
    /\ UNCHANGED <<env, dst, srcDir, listed, linkLog, prevLinkOk, prevOut>>

\* Variant: the result of writing examples.in is dropped.
main_finish_IgnoreErr ==
    /\ pc = "loop"
    /\ todo = {}
    /\ examples_in' = Append(examples_in, <<"}">>)
    /\ index_html' = Append(index_html, <<"</ul>">>)
    /\ \E io \in {"ok", "examples_in_err", "index_err"} :
        CASE io = "examples_in_err" ->
               /\ pc' = "done"
               /\ fault' = "write_examples_in"
               /\ indexHtml' = index_html'
               /\ UNCHANGED examplesIn
          [] io = "index_err" ->
               /\ pc' = "failed"
               /\ fault' = "write_index"
               /\ examplesIn' = examples_in'
               /\ UNCHANGED indexHtml
          [] OTHER ->
               /\ pc' = "done"
               /\ fault' = fault
               /\ examplesIn' = examples_in'
               /\ indexHtml' = index_html'
    /\ UNCHANGED <<env, dst, srcDir, htmlDir, html, todo, listed, wrote,
                   linkLog, prevLinkOk, prevOut>>

\* After the loop: the buffers are closed and written out.
main_finish ==
    /\ pc = "loop"
    /\ todo = {}
    /\ examples_in' = Append(examples_in, <<"}">>)
    /\ index_html' = Append(index_html, <<"</ul>">>)
    /\ \E io \in {"ok", "examples_in_err", "index_err"} :
        CASE io = "examples_in_err" ->
               /\ pc' = "failed"
               /\ fault' = "write_examples_in"
               /\ UNCHANGED <<examplesIn, indexHtml>>
          [] io = "index_err" ->
               /\ pc' = "failed"
               /\ fault' = "write_index"
               /\ examplesIn' = examples_in'
               /\ UNCHANGED indexHtml
          [] OTHER ->
               /\ pc' = "done"
               /\ fault' = fault
               /\ examplesIn' = examples_in'
               /\ indexHtml' = index_html'
    /\ UNCHANGED <<env, dst, srcDir, htmlDir, html, todo, listed, wrote,
                   linkLog, prevLinkOk, prevOut>>

Next ==
    \/ \E f \in Universe : AddFile(f)
    \/ \E f \in Universe : RemoveFile(f)
    \/ main_start
    \/ link_dir_unix
    \/ link_dir_windows_remove
    \/ link_dir_windows_symlink
    \/ link_dir_windows_mklink
    \/ main_read_dir
    \/ \E path \in Universe \cup OtherDir \cup OwnDir : main_loop(path)
    \/ main_finish

Spec == Init /\ [][Next]_vars

\* ---------------------------------------------------------- properties
Range(seq) == { seq[i] : i \in 1..Len(seq) }

\* The entries of a written examples.in or index.html between header and footer.
Body(file) == SubSeq(file, 2, Len(file) - 1)

ModuleNames(file) == { line[2] : line \in Range(Body(file)) }

\* Base names of the listed entries with extension "rs" outside the Exception Set.
QualifyingNames ==
    { file_stem(p) : p \in { q \in listed : IsRs(q) /\ ~IsException(file_stem(q)) } }

WrittenPaths == { w.path : w \in Range(wrote) }

LinkReturned == <<"link_dir", "return">> \in Range(linkLog)

LinkOps == { e[1] : e \in Range(linkLog) }

\* C1: after a successful run the names declared in the module list and the
\* html files written by the run, html/<name>.html, are both exactly the
\* base names of the listed entries with extension "rs" that are not in the
\* Exception Set.
C1_ExactImage ==
    pc = "done" =>
        /\ ModuleNames(examplesIn) = QualifyingNames
        /\ WrittenPaths = { FormatHtmlName(n) : n \in QualifyingNames }

\* C2: the document generated for the example "switch" imports and calls
\* "switch_demo" and nowhere names "switch", while its module line, its index
\* entry and its file html/switch.html keep the base name; for every other
\* example the entry-function name is the base name.
C2_KeywordRemap ==
    \A i \in 1..Len(wrote) :
        LET w == wrote[i]
            name == file_stem(w.entry)
        IN
        /\ name = <<"switch">> =>
              /\ w.doc.import = <<"switch_demo">>
              /\ w.doc.call = <<"switch_demo">>
              /\ w.doc.title # <<"switch">>
              /\ w.path = <<"switch", "html">>
              /\ <<"pub mod", <<"switch">>>> \in Range(examples_in)
              /\ <<"li", <<"switch", "html">>, <<"switch">>>> \in Range(index_html)
        /\ name # <<"switch">> =>
              /\ w.doc.import = name
              /\ w.doc.call = name

C2_Witness ==
    /\ pc = "done"
    /\ \E i \in 1..Len(wrote) : wrote[i].entry = <<"switch", "rs">>
    /\ \E i \in 1..Len(wrote) : wrote[i].entry = <<"foo", "rs">>

\* C3: after a successful run every index entry links to an html file the
\* run wrote, and every html file the run wrote is the target of exactly one
\* index entry.
C3_IndexMatchesFiles ==
    pc = "done" =>
        LET items == Body(indexHtml) IN
        /\ \A i \in 1..Len(items) : items[i][2] \in WrittenPaths
        /\ \A p \in WrittenPaths :
              Cardinality({ i \in 1..Len(items) : items[i][2] = p }) = 1

\* C4: a second run that succeeds right after a successful run, with the
\* input directory unchanged, leaves the module list, the index file and
\* every html file with the content they had after the first run.
C4_Idempotent ==
    (pc = "done" /\ prevOut # << >>) => Outputs = prevOut[1]

\* C5: a call of link_dir that follows a call that returned normally
\* returns normally too.
C5_LinkTwice ==
    prevLinkOk => fault \notin {"symlink", "remove_dir", "mklink", "verify"}

C5_Witness ==
    /\ prevLinkOk
    /\ LinkReturned
    /\ \/ <<"symlink", "AlreadyExists">> \in Range(linkLog)
       \/ <<"remove_dir", "Ok">> \in Range(linkLog)

\* C6: whenever link_dir has returned normally the destination resolves to
\* the content of the source directory.
C6_ResolvesToSource ==
    LinkReturned => dst \in {"link_src", "junction_src"}

\* C7: a run that reports success met no failure and wrote the document of
\* every qualifying example, the module list and the index file; a run that
\* met a failure has failed; and once a run has failed, it writes nothing
\* more (a failed write of the module list leaves the index file untouched).
C7_Success ==
    /\ pc = "done" =>
          /\ fault = ""
          /\ LinkReturned
          /\ { file_stem(w.entry) : w \in Range(wrote) } = QualifyingNames
          /\ \A w \in Range(wrote) : w.path \in DOMAIN html
          /\ examplesIn = examples_in
          /\ indexHtml = index_html
    /\ fault # "" => pc = "failed"

C7_NoPartialSuccess ==
    /\ []C7_Success
    /\ [][ /\ (pc = "failed" => UNCHANGED outFiles)
           /\ (fault' = "write_examples_in" => UNCHANGED outFiles) ]_vars

C7_Witness ==
    /\ pc = "failed"
    /\ fault = "write_examples_in"
    /\ Len(wrote) = 2
    /\ indexHtml # << >>

\* C8: the html writes of one run target pairwise distinct files.
C8_DistinctTargets ==
    \A i, j \in 1..Len(wrote) : i # j => wrote[i].path # wrote[j].path

Rank(op) ==
    CASE op = "remove_dir" -> 1
      [] op = "symlink_dir" -> 2
      [] op = "mklink" -> 3
      [] op = "exists" -> 4
      [] OTHER -> 5

\* C9: on windows the linker removes, then tries the native symlink, then
\* the junction utility, then verifies: a removal failure other than "not
\* found" ends the call before any link is attempted, the utility runs only
\* after the symlink was rejected, and after the utility has run the call
\* returns only if the destination exists.
C9_WindowsOrder ==
    platform = "windows" =>
        /\ \A i, j \in 1..Len(linkLog) :
              i < j => Rank(linkLog[i][1]) < Rank(linkLog[j][1])
        /\ linkLog # << >> => linkLog[1][1] = "remove_dir"
        /\ <<"remove_dir", "Other">> \in Range(linkLog) =>
              /\ Len(linkLog) = 1
              /\ pc \in {"failed", "idle"}
        /\ "mklink" \in LinkOps => <<"symlink_dir", "Err">> \in Range(linkLog)
        /\ ("mklink" \in LinkOps /\ LinkReturned) =>
              /\ <<"exists", "true">> \in Range(linkLog)
              /\ Exists(dst)
        /\ <<"mklink", "nocreate">> \in Range(linkLog) => ~LinkReturned

C9_Witness ==
    /\ platform = "windows"
    /\ <<"mklink", "created">> \in Range(linkLog)
    /\ pc = "linked"
    /\ dst = "junction_src"

\* C10: a step never removes a file of the html directory and changes or
\* adds only the file the loop writes in that step; after a successful run
\* the directory holds the files the run wrote.
C10_Step ==
    /\ \A p \in DOMAIN html : p \in DOMAIN html'
    /\ \A p \in DOMAIN html' :
          (p \notin DOMAIN html \/ html'[p] # html[p]) =>
              /\ pc = "loop"
              /\ Len(wrote') = Len(wrote) + 1
              /\ p = wrote'[Len(wrote')].path

C10_Holds == pc = "done" => WrittenPaths \subseteq DOMAIN html

====
